---- MODULE Spec2Model ----
(***************************************************************************)
(* tink-go-awskms: the AWSAEAD adapter (integration/awskms/aws_kms_aead.go) *)
(* in front of the remote KMS capability, its callers, and the KMS client  *)
(* registry the integration tests drive.                                   *)
(***************************************************************************)
EXTENDS Integers, Sequences, FiniteSets, TLC

VARIABLES
    adapters,    \* AdapterIds -> AWSAEAD struct (ctx, keyURI, kms, encryptionContextName)
    built,       \* history: the arguments each adapter was constructed with
    cancelled,   \* the cancellation scopes (context.Context) already cancelled
    pc,          \* Threads -> "idle" | "inflight" | "done": position of each caller
    call,        \* Threads -> the call a caller is in: op, adapter, input, ad, request
    resp,        \* Threads -> what the remote call returned to the adapter (resp, err)
    result,      \* Threads -> what Encrypt / Decrypt returned to the caller (bytes, error)
    sent,        \* Threads -> number of remote calls the current adapter call has issued
    held,        \* the ciphertext the callers hold: the last successful Encrypt
    kmsClients,  \* registry: the registered KMS clients, in registration order
    lookup       \* the last registry.GetAEAD: key URI asked and what came back

vars == <<adapters, built, cancelled, pc, call, resp, result, sent, held, kmsClients, lookup>>

aeadVars == <<adapters, built, cancelled, pc, call, resp, result, sent, held>>
regVars == <<kmsClients, lookup>>

----------------------------------------------------------------------------
(* Go values *)

\* A []byte: nil and the empty slice are different values of length 0.
NilBytes == [isNil |-> TRUE, data |-> <<>>]
Bytes(s) == [isNil |-> FALSE, data |-> s]
len(b) == Len(b.data)

\* error values; NilErr is Go's nil error
NilErr == "nil"
ErrCanceled == "context canceled"
ErrUnavailable == "RemoteCallError: unavailable"
ErrIncorrectKey == "RemoteCallError: IncorrectKeyException"
ErrInvalidCiphertext == "RemoteCallError: InvalidCiphertextException"

----------------------------------------------------------------------------
(* Bounds and input sets *)

MaxADLen == 2
MaxClients == 3

\* associated data: absent (nil), empty, the strings of 0x01 bytes up to MaxADLen,
\* and the byte 0x11, whose hex digits are those of 0x01 0x01 without the zeros
AssociatedDatas ==
    {NilBytes} \cup {Bytes([i \in 1..k |-> 1]) : k \in 0..MaxADLen} \cup {Bytes(<<17>>)}
\* the callers of the concurrent specification use fewer inputs
ConcAssociatedDatas == {NilBytes, Bytes(<<1, 1>>)}

Plaintexts == {Bytes(<<112>>), Bytes(<<112, 116>>)}
ConcPlaintexts == {Bytes(<<112>>)}

Keys == {"key/K1", "key/K2"}
Names == {"AssociatedData", "LegacyAdditionalData"}
Scopes == {"ctx1", "ctx2"}
AdapterIds == {"a1", "a2"}
Threads == {"t1", "t2"}
OneThread == {"t1"}

----------------------------------------------------------------------------
(* EncryptionContextName and encoding/hex *)

\* EncryptionContextName.String(): the literal key of the context map
String(n) == IF n = "AssociatedData" THEN "associatedData" ELSE "additionalData"

HexDigits == <<"0", "1", "2", "3", "4", "5", "6", "7",
               "8", "9", "a", "b", "c", "d", "e", "f">>

\* a faulty encoder that drops the leading zero of a byte
RECURSIVE EncodeNoPad(_)
EncodeNoPad(d) ==
    IF d = <<>> THEN ""
    ELSE (IF Head(d) \div 16 = 0 THEN "" ELSE HexDigits[(Head(d) \div 16) + 1])
         \o HexDigits[(Head(d) % 16) + 1] \o EncodeNoPad(Tail(d))

\* hex.EncodeToString: two lower-case hex digits per byte
RECURSIVE EncodeToString(_)
EncodeToString(d) ==
    IF d = <<>> THEN ""
    ELSE HexDigits[(Head(d) \div 16) + 1] \o HexDigits[(Head(d) % 16) + 1]
         \o EncodeToString(Tail(d))

----------------------------------------------------------------------------
(* The adapter *)

\* a request's EncryptionContext: a map (a set of <<key, value>> pairs) or absent
NoContext == [present |-> FALSE, entries |-> {}]
Context(name, value) == [present |-> TRUE, entries |-> {<<name, value>>}]

\* a constructor that drops the policy it is given
newAWSAEADDefaultName(c, uri, k, name) ==
    [ctx |-> c, keyURI |-> uri, kms |-> k, encryptionContextName |-> "AssociatedData"]

newAWSAEAD(c, uri, k, name) ==
    [ctx |-> c, keyURI |-> uri, kms |-> k, encryptionContextName |-> name]

\* faulty context rules
ContextUnlessNil(a, associatedData) ==
    IF ~associatedData.isNil
    THEN Context(String(a.encryptionContextName), EncodeToString(associatedData.data))
    ELSE NoContext
ContextAlwaysSet(a, associatedData) ==
    Context(String(a.encryptionContextName), EncodeToString(associatedData.data))
ContextFixedName(a, associatedData) ==
    IF len(associatedData) > 0
    THEN Context("associatedData", EncodeToString(associatedData.data))
    ELSE NoContext
ContextNoPad(a, associatedData) ==
    IF len(associatedData) > 0
    THEN Context(String(a.encryptionContextName), EncodeNoPad(associatedData.data))
    ELSE NoContext

\* the context rule of Encrypt and of Decrypt
EncryptionContext(a, associatedData) ==
    IF len(associatedData) > 0
    THEN Context(String(a.encryptionContextName), EncodeToString(associatedData.data))
    ELSE NoContext

\* a Decrypt that leaves the context out of its request
DecryptInputNoContext(a, ciphertext, associatedData) ==
    [ctx |-> a.ctx, KeyId |-> a.keyURI, CiphertextBlob |-> ciphertext,
     EncryptionContext |-> NoContext]

\* a Decrypt that names no key in its request
DecryptInputNoKeyId(a, ciphertext, associatedData) ==
    [ctx |-> a.ctx, KeyId |-> "<nil>", CiphertextBlob |-> ciphertext,
     EncryptionContext |-> EncryptionContext(a, associatedData)]

\* an Encrypt that does not attach the adapter's scope
EncryptInputBackground(a, plaintext, associatedData) ==
    [ctx |-> "background", KeyId |-> a.keyURI, Plaintext |-> plaintext,
     EncryptionContext |-> EncryptionContext(a, associatedData)]

\* Encrypt up to the remote call: the kms.EncryptInput and the scope it is sent with
EncryptInput(a, plaintext, associatedData) ==
    [ctx |-> a.ctx, KeyId |-> a.keyURI, Plaintext |-> plaintext,
     EncryptionContext |-> EncryptionContext(a, associatedData)]

\* Decrypt up to the remote call: the kms.DecryptInput and the scope it is sent with
DecryptInput(a, ciphertext, associatedData) ==
    [ctx |-> a.ctx, KeyId |-> a.keyURI, CiphertextBlob |-> ciphertext,
     EncryptionContext |-> EncryptionContext(a, associatedData)]

\* a return that wraps the remote error in one of its own
ReturnWrapsError(r) ==
    IF r.err # NilErr THEN [out |-> NilBytes, err |-> "awskms: " \o r.err]
    ELSE [out |-> r.out, err |-> NilErr]

\* Encrypt / Decrypt after the remote call: (nil, err) or (resp bytes, nil)
Return(r) ==
    IF r.err # NilErr THEN [out |-> NilBytes, err |-> r.err]
    ELSE [out |-> r.out, err |-> NilErr]

\* a receiver that falls back to the legacy context name once used
ReceiverSwitchesName(a) == [a EXCEPT !.encryptionContextName = "LegacyAdditionalData"]

\* the receiver after Encrypt or Decrypt: no field is assigned
Receiver(a) == a

----------------------------------------------------------------------------
(* The remote cryptography capability (Cryptable) and the service behind it *)

\* a ciphertext blob is opaque to the adapter; the service reads its own blobs
Blob(key, context, plaintext) ==
    [valid |-> TRUE, key |-> key, context |-> context, plaintext |-> plaintext]
Garbage == [valid |-> FALSE, key |-> "-", context |-> NoContext, plaintext |-> NilBytes]

\* remoteEncrypt(keyId, plaintext, context) -> ciphertext
kmsEncrypt(req) ==
    [out |-> Blob(req.KeyId, req.EncryptionContext, req.Plaintext), err |-> NilErr]

\* remoteDecrypt(keyId, ciphertext, context) -> plaintext: the service checks the
\* key the request names, if it names one, and the exact encryption context
kmsDecrypt(req) ==
    LET b == req.CiphertextBlob IN
    IF ~b.valid THEN [out |-> NilBytes, err |-> ErrInvalidCiphertext]
    ELSE IF req.KeyId # "<nil>" /\ req.KeyId # b.key
         THEN [out |-> NilBytes, err |-> ErrIncorrectKey]
    ELSE IF req.EncryptionContext.entries # b.context.entries
         THEN [out |-> NilBytes, err |-> ErrInvalidCiphertext]
    ELSE [out |-> b.plaintext, err |-> NilErr]

\* what one remote call can return: a cancelled scope aborts it; otherwise the
\* service answers, or the call fails on the way
Outcomes(scope, answer) ==
    IF scope \in cancelled THEN {[out |-> NilBytes, err |-> ErrCanceled]}
    ELSE {answer, [out |-> NilBytes, err |-> ErrUnavailable]}

----------------------------------------------------------------------------
(* Callers of Encrypt and Decrypt *)

NoCall == [op |-> "none"]
NoResp == [out |-> NilBytes, err |-> "-"]
NoHeld == [ct |-> Garbage, a |-> "-", plaintext |-> NilBytes, ad |-> NilBytes]

Free(t) == pc[t] \in {"idle", "done"}

\* Encrypt: build the request and issue the one remote call
EncryptStart(t, id, plaintext, associatedData) ==
    /\ Free(t)
    /\ call' = [call EXCEPT ![t] =
                 [op |-> "Encrypt", a |-> id, input |-> plaintext, ad |-> associatedData,
                  src |-> NoHeld,
                  req |-> EncryptInput(adapters[id], plaintext, associatedData)]]
    /\ pc' = [pc EXCEPT ![t] = "inflight"]
    /\ sent' = [sent EXCEPT ![t] = 1]
    /\ resp' = [resp EXCEPT ![t] = NoResp]
    /\ result' = [result EXCEPT ![t] = NoResp]
    /\ UNCHANGED <<adapters, built, cancelled, held, regVars>>

\* Encrypt: the remote call returns and Encrypt returns to its caller
EncryptFinish(t) ==
    /\ pc[t] = "inflight"
    /\ call[t].op = "Encrypt"
    /\ \E r \in Outcomes(call[t].req.ctx, kmsEncrypt(call[t].req)) :
         /\ resp' = [resp EXCEPT ![t] = r]
         /\ result' = [result EXCEPT ![t] = Return(r)]
         /\ held' = IF Return(r).err = NilErr
                    THEN [ct |-> Return(r).out, a |-> call[t].a,
                          plaintext |-> call[t].input, ad |-> call[t].ad]
                    ELSE held
    /\ pc' = [pc EXCEPT ![t] = "done"]
    /\ adapters' = [adapters EXCEPT ![call[t].a] = Receiver(@)]
    /\ UNCHANGED <<built, cancelled, call, sent, regVars>>

\* Decrypt of the ciphertext the callers hold (h = held) or of bytes that are
\* no ciphertext (h = NoHeld)
DecryptStart(t, id, h, associatedData) ==
    /\ Free(t)
    /\ h \in {held, NoHeld}
    /\ call' = [call EXCEPT ![t] =
                 [op |-> "Decrypt", a |-> id, input |-> h.ct, ad |-> associatedData,
                  src |-> h,
                  req |-> DecryptInput(adapters[id], h.ct, associatedData)]]
    /\ pc' = [pc EXCEPT ![t] = "inflight"]
    /\ sent' = [sent EXCEPT ![t] = 1]
    /\ resp' = [resp EXCEPT ![t] = NoResp]
    /\ result' = [result EXCEPT ![t] = NoResp]
    /\ UNCHANGED <<adapters, built, cancelled, held, regVars>>

\* Decrypt: the remote call returns and Decrypt returns to its caller
DecryptFinish(t) ==
    /\ pc[t] = "inflight"
    /\ call[t].op = "Decrypt"
    /\ \E r \in Outcomes(call[t].req.ctx, kmsDecrypt(call[t].req)) :
         /\ resp' = [resp EXCEPT ![t] = r]
         /\ result' = [result EXCEPT ![t] = Return(r)]
    /\ pc' = [pc EXCEPT ![t] = "done"]
    /\ adapters' = [adapters EXCEPT ![call[t].a] = Receiver(@)]
    /\ UNCHANGED <<built, cancelled, call, sent, held, regVars>>

\* the owner of a cancellation scope cancels it
Cancel(s) ==
    /\ s \notin cancelled
    /\ cancelled' = cancelled \cup {s}
    /\ UNCHANGED <<adapters, built, pc, call, resp, result, sent, held, regVars>>

----------------------------------------------------------------------------
(* KMS clients and the registry of KMS clients *)

\* key URIs as sequences of segments; a prefix covers every URI it starts
AwsPrefix == <<"aws-kms://", "arn:aws:kms:us-east-2:235739564943:">>
KeyURI1 == AwsPrefix \o <<"key/K1">>
KeyURI2 == AwsPrefix \o <<"key/K2">>
OtherURI == <<"aws-kms://", "arn:aws:kms:eu-west-1:235739564943:", "key/K3">>
KeyURIs == {KeyURI1, KeyURI2, OtherURI}

HasPrefix(s, prefix) ==
    /\ Len(prefix) <= Len(s)
    /\ SubSeq(s, 1, Len(prefix)) = prefix

\* a client: the prefix it was configured for, its scope, capability and policy
Client(prefix, name) ==
    [keyURIPrefix |-> prefix, ctx |-> "ctx1", kms |-> "kms",
     encryptionContextName |-> name]
Clients == {Client(AwsPrefix, "AssociatedData"), Client(KeyURI1, "LegacyAdditionalData"),
            Client(KeyURI2, "AssociatedData")}

\* KMSClient.Supports
Supports(c, keyURI) == HasPrefix(keyURI, c.keyURIPrefix)

\* KMSClient.GetAEAD
ClientGetAEAD(c, keyURI) ==
    IF ~Supports(c, keyURI)
    THEN [aead |-> "<nil>", err |-> "UnsupportedKeyError"]
    ELSE [aead |-> newAWSAEAD(c.ctx, keyURI, c.kms, c.encryptionContextName),
          err |-> NilErr]

\* registry.GetAEAD: the clients in registration order, the first that supports
RECURSIVE RegistryGetAEAD(_, _)
RegistryGetAEAD(cs, keyURI) ==
    IF cs = <<>> THEN [aead |-> "<nil>", err |-> "NoClientFoundError"]
    ELSE IF Supports(Head(cs), keyURI) THEN ClientGetAEAD(Head(cs), keyURI)
    ELSE RegistryGetAEAD(Tail(cs), keyURI)

NoLookup == [keyURI |-> <<>>, clients |-> <<>>, res |-> [aead |-> "<nil>", err |-> "-"]]

RegisterKMSClient(c) ==
    /\ Len(kmsClients) < MaxClients
    /\ kmsClients' = Append(kmsClients, c)
    /\ UNCHANGED <<lookup, aeadVars>>

ClearKMSClients ==
    /\ kmsClients # <<>>
    /\ kmsClients' = <<>>
    /\ UNCHANGED <<lookup, aeadVars>>

\* the tests' setupKMS: clear, then register the new client
setupKMS(c) ==
    /\ kmsClients' = <<c>>
    /\ UNCHANGED <<lookup, aeadVars>>

GetAEAD(keyURI) ==
    /\ lookup' = [keyURI |-> keyURI, clients |-> kmsClients,
                  res |-> RegistryGetAEAD(kmsClients, keyURI)]
    /\ UNCHANGED <<kmsClients, aeadVars>>

----------------------------------------------------------------------------
(* Specifications *)

\* adapter a1 is bound to the first key under the current policy and the first
\* scope; adapter a2 is bound to either key under either policy, with a scope
\* drawn from scopes
InitWith(scopes) ==
    /\ \E c \in scopes, k \in Keys, n \in Names :
         adapters = [id \in AdapterIds |->
                       IF id = "a1" THEN newAWSAEAD("ctx1", "key/K1", "kms", "AssociatedData")
                       ELSE newAWSAEAD(c, k, "kms", n)]
    /\ built = adapters
    /\ cancelled = {}
    /\ pc = [t \in Threads |-> "idle"]
    /\ call = [t \in Threads |-> NoCall]
    /\ resp = [t \in Threads |-> NoResp]
    /\ result = [t \in Threads |-> NoResp]
    /\ sent = [t \in Threads |-> 0]
    /\ held = NoHeld
    /\ kmsClients = <<>>
    /\ lookup = NoLookup

Init == InitWith({"ctx2"})

\* one caller, every input
Next ==
    \/ \E t \in OneThread, id \in AdapterIds, p \in Plaintexts, ad \in AssociatedDatas :
         EncryptStart(t, id, p, ad)
    \/ \E t \in OneThread : EncryptFinish(t)
    \/ \E t \in OneThread, id \in AdapterIds, h \in {held, NoHeld}, ad \in AssociatedDatas :
         DecryptStart(t, id, h, ad)
    \/ \E t \in OneThread : DecryptFinish(t)

Spec == Init /\ [][Next]_vars

\* one caller and the owners of the scopes, which may be one scope for both adapters
InitCancel == InitWith(Scopes)

NextCancel ==
    \/ \E t \in OneThread, id \in AdapterIds, p \in ConcPlaintexts, ad \in ConcAssociatedDatas :
         EncryptStart(t, id, p, ad)
    \/ \E t \in OneThread : EncryptFinish(t)
    \/ \E t \in OneThread, id \in AdapterIds, h \in {held, NoHeld}, ad \in ConcAssociatedDatas :
         DecryptStart(t, id, h, ad)
    \/ \E t \in OneThread : DecryptFinish(t)
    \/ \E s \in Scopes : Cancel(s)

SpecCancel == InitCancel /\ [][NextCancel]_vars

\* concurrent callers on one or two adapters sharing the capability
NextConc ==
    \/ \E t \in Threads, id \in AdapterIds, p \in ConcPlaintexts, ad \in ConcAssociatedDatas :
         EncryptStart(t, id, p, ad)
    \/ \E t \in Threads : EncryptFinish(t)
    \/ \E t \in Threads, id \in AdapterIds, h \in {held, NoHeld}, ad \in ConcAssociatedDatas :
         DecryptStart(t, id, h, ad)
    \/ \E t \in Threads : DecryptFinish(t)

SpecConc == Init /\ [][NextConc]_vars

\* the registry
InitReg == InitWith({"ctx2"}) /\ adapters["a2"].keyURI = "key/K2"
                              /\ adapters["a2"].encryptionContextName = "AssociatedData"

NextReg ==
    \/ \E c \in Clients : RegisterKMSClient(c)
    \/ ClearKMSClients
    \/ \E c \in Clients : setupKMS(c)
    \/ \E u \in KeyURIs : GetAEAD(u)

SpecReg == InitReg /\ [][NextReg]_vars

----------------------------------------------------------------------------
(* Properties *)

Done(t) == pc[t] = "done"
DoneDecrypt(t) == Done(t) /\ call[t].op = "Decrypt" /\ call[t].src # NoHeld
\* the remote service answered: the call neither failed on the way nor was aborted
Answered(t) == resp[t].err \notin {ErrUnavailable, ErrCanceled}
Fails(t) == result[t].err # NilErr /\ result[t].out = NilBytes
Returns(t, plaintext) == result[t].err = NilErr /\ result[t].out = plaintext

\* C1: on one adapter, with the remote service answering, decrypting a ciphertext
\* of Encrypt(P, A) with the same A (non-empty, empty or nil) returns exactly P.
RoundTrip ==
    \A t \in Threads :
        (/\ DoneDecrypt(t)
         /\ call[t].src.a = call[t].a
         /\ call[t].src.ad = call[t].ad
         /\ Answered(t))
        => Returns(t, call[t].src.plaintext)

RoundTripWitness ==
    \E t \in Threads :
        /\ DoneDecrypt(t)
        /\ call[t].src.a = call[t].a
        /\ call[t].src.ad = call[t].ad
        /\ len(call[t].ad) > 0
        /\ Answered(t)
        /\ Returns(t, Bytes(<<112, 116>>))

\* C2: on one adapter, decrypting a ciphertext of Encrypt(P, A1) with a different
\* non-empty A2 (A1 non-empty too) returns an error and no plaintext.
ADMismatchFails ==
    \A t \in Threads :
        (/\ DoneDecrypt(t)
         /\ call[t].src.a = call[t].a
         /\ len(call[t].src.ad) > 0
         /\ len(call[t].ad) > 0
         /\ call[t].src.ad # call[t].ad)
        => Fails(t)

ADMismatchWitness ==
    \E t \in Threads :
        /\ DoneDecrypt(t)
        /\ call[t].src.a = call[t].a
        /\ call[t].src.ad = Bytes(<<1, 1>>)
        /\ call[t].ad = Bytes(<<17>>)
        /\ result[t].err = ErrInvalidCiphertext

\* C3: on one adapter, with the remote service answering, a ciphertext made with
\* empty associated data decrypts to P with nil associated data, and one made
\* with nil associated data decrypts to P with empty associated data.
EmptyAbsentEquivalent ==
    \A t \in Threads :
        (/\ DoneDecrypt(t)
         /\ call[t].src.a = call[t].a
         /\ len(call[t].src.ad) = 0
         /\ len(call[t].ad) = 0
         /\ call[t].src.ad.isNil # call[t].ad.isNil
         /\ Answered(t))
        => Returns(t, call[t].src.plaintext)

EmptyAbsentWitness ==
    \E t \in Threads :
        /\ DoneDecrypt(t)
        /\ call[t].src.a = call[t].a
        /\ call[t].src.ad = Bytes(<<>>)
        /\ call[t].ad = NilBytes
        /\ Returns(t, call[t].src.plaintext)

\* C4: a ciphertext made by an adapter bound to key K1 fails under the Decrypt of
\* an adapter bound to another key K2, whatever associated data is supplied.
KeyCommitment ==
    \A t \in Threads :
        (/\ DoneDecrypt(t)
         /\ built[call[t].src.a].keyURI # built[call[t].a].keyURI)
        => Fails(t)

KeyCommitmentWitness ==
    \E t \in Threads :
        /\ DoneDecrypt(t)
        /\ built[call[t].src.a].keyURI # built[call[t].a].keyURI
        /\ built[call[t].src.a].encryptionContextName = built[call[t].a].encryptionContextName
        /\ call[t].src.ad = call[t].ad
        /\ result[t].err = ErrIncorrectKey

OtherPolicy(t) ==
    /\ DoneDecrypt(t)
    /\ built[call[t].src.a].keyURI = built[call[t].a].keyURI
    /\ built[call[t].src.a].encryptionContextName # built[call[t].a].encryptionContextName
    /\ call[t].src.ad = call[t].ad

\* C5 as stated: for every associated data A, a ciphertext made under one naming
\* policy fails under an adapter of the same key and the other policy, given A.
PolicyChangeBreaksDecrypt ==
    \A t \in Threads : OtherPolicy(t) => Fails(t)

\* C5 amended: the same for every non-empty associated data A.
PolicyChangeBreaksDecryptNonEmpty ==
    \A t \in Threads : (OtherPolicy(t) /\ len(call[t].ad) > 0) => Fails(t)

PolicyChangeWitness ==
    \E t \in Threads :
        /\ OtherPolicy(t)
        /\ len(call[t].ad) > 0
        /\ result[t].err = ErrInvalidCiphertext

\* C9: every request carries the adapter's key identifier and the payload as
\* given; its context is present exactly when len(associatedData) > 0, then one
\* entry from the adapter's context name to the hex of the associated data, and
\* absent (no entries) otherwise; the same for Encrypt and Decrypt.
RequestShape ==
    \A t \in Threads :
        pc[t] # "idle" =>
            LET c == call[t]
                a == adapters[c.a]
                ec == c.req.EncryptionContext
            IN  /\ c.req.KeyId = a.keyURI
                /\ c.op = "Encrypt" => c.req.Plaintext = c.input
                /\ c.op = "Decrypt" => c.req.CiphertextBlob = c.input
                /\ ec.present <=> len(c.ad) > 0
                /\ ~ec.present => ec.entries = {}
                /\ ec.present =>
                     /\ Cardinality(ec.entries) = 1
                     /\ \A e \in ec.entries :
                          /\ e[1] = String(a.encryptionContextName)
                          /\ e[2] = EncodeToString(c.ad.data)
                          /\ Len(e[2]) = 2 * len(c.ad)

RequestShapeWitness ==
    \E t \in Threads :
        /\ pc[t] = "inflight"
        /\ call[t].op = "Decrypt"
        /\ call[t].a = "a2"
        /\ call[t].ad = Bytes(<<>>)
        /\ call[t].req.EncryptionContext = NoContext
        /\ held.ad = Bytes(<<1, 1>>)
        /\ call[t].src = held

\* C10: every call issues exactly one remote call; a remote error comes back as
\* that same error with nil bytes; a remote success comes back as the response's
\* bytes with no error.
ErrorPropagation ==
    \A t \in Threads :
        /\ pc[t] # "idle" => sent[t] = 1
        /\ Done(t) =>
             IF resp[t].err # NilErr
             THEN result[t].err = resp[t].err /\ result[t].out = NilBytes
             ELSE result[t].err = NilErr /\ result[t].out = resp[t].out

ErrorPropagationWitness ==
    \E t \in Threads :
        /\ Done(t)
        /\ call[t].op = "Encrypt"
        /\ resp[t].err = ErrUnavailable
        /\ result[t] = [out |-> NilBytes, err |-> ErrUnavailable]
        /\ sent[t] = 1

Supporting(cs, keyURI) == {i \in 1..Len(cs) : Supports(cs[i], keyURI)}
Earliest(S) == CHOOSE i \in S : \A j \in S : i <= j

\* C6: after any sequence of Register and ClearAll, registry.GetAEAD(id) returns
\* the AEAD of the earliest-registered client, since the last ClearAll, that
\* supports id, and fails with NoClientFoundError when no registered client does.
RegistryDispatch ==
    lookup # NoLookup =>
        LET cs == lookup.clients
            S == Supporting(cs, lookup.keyURI)
        IN  IF S = {}
            THEN lookup.res = [aead |-> "<nil>", err |-> "NoClientFoundError"]
            ELSE LET c == cs[Earliest(S)]
                 IN  /\ lookup.res.err = NilErr
                     /\ lookup.res.aead.keyURI = lookup.keyURI
                     /\ lookup.res.aead.ctx = c.ctx
                     /\ lookup.res.aead.kms = c.kms
                     /\ lookup.res.aead.encryptionContextName = c.encryptionContextName

RegistryDispatchWitness ==
    /\ lookup # NoLookup
    /\ lookup.clients = kmsClients
    /\ Len(kmsClients) = 3
    /\ Supporting(kmsClients, lookup.keyURI) = {2, 3}
    /\ kmsClients[2].encryptionContextName # kmsClients[3].encryptionContextName
    /\ lookup.res.err = NilErr
    /\ lookup.res.aead.encryptionContextName = kmsClients[2].encryptionContextName

\* C7: every remote call carries the scope its adapter was constructed with, and
\* a call that ends once that scope is cancelled, in flight at the cancellation
\* or started after it, ends with the cancellation error and no bytes.
CancelAborts ==
    /\ [](\A t \in Threads :
            pc[t] # "idle" => call[t].req.ctx = built[call[t].a].ctx)
    /\ [][\A t \in Threads :
            (/\ pc[t] = "inflight"
             /\ pc'[t] = "done"
             /\ built[call[t].a].ctx \in cancelled)
            => (result'[t].err = ErrCanceled /\ result'[t].out = NilBytes)]_vars

\* a Decrypt ended by the cancellation of its adapter's scope, after an Encrypt
\* on the same adapter had completed
CancelAbortsWitness ==
    \E t \in Threads :
        /\ Done(t)
        /\ call[t].op = "Decrypt"
        /\ call[t].src # NoHeld
        /\ call[t].src.a = call[t].a
        /\ call[t].src.ad = call[t].ad
        /\ built[call[t].a].ctx \in cancelled
        /\ result[t] = [out |-> NilBytes, err |-> ErrCanceled]

\* the request and the result of a call that runs alone on an adapter as built
AloneRequest(c) ==
    IF c.op = "Encrypt" THEN EncryptInput(built[c.a], c.input, c.ad)
    ELSE DecryptInput(built[c.a], c.input, c.ad)
AloneAnswer(c) ==
    IF c.op = "Encrypt" THEN kmsEncrypt(AloneRequest(c)) ELSE kmsDecrypt(AloneRequest(c))

\* C8: Encrypt and Decrypt leave every field of every adapter as constructed, and
\* under any interleaving of concurrent calls each call's request and result are
\* those of the same call running alone.
ConcurrentUse ==
    /\ adapters = built
    /\ \A t \in Threads :
         pc[t] # "idle" =>
            /\ call[t].req = AloneRequest(call[t])
            /\ Done(t) =>
                 /\ resp[t] \in {AloneAnswer(call[t]), [out |-> NilBytes, err |-> ErrUnavailable]}
                 /\ result[t] = Return(resp[t])

\* two calls in flight on one adapter with different associated data, after two
\* calls on it have completed
ConcurrentUseWitness ==
    /\ pc["t1"] = "inflight"
    /\ pc["t2"] = "inflight"
    /\ call["t1"].a = call["t2"].a
    /\ call["t1"].op = "Decrypt"
    /\ call["t2"].op = "Encrypt"
    /\ call["t1"].src # NoHeld
    /\ call["t1"].ad # call["t2"].ad
    /\ call["t1"].src.a = call["t1"].a

====
